---- MODULE Spec2Model ----
(***************************************************************************)
(* The Interactive Movie Renamer (movie_renamer.py).                       *)
(*                                                                         *)
(* Text is modelled as a sequence of one-character strings, a path as a    *)
(* sequence of names, the file system as the set of directories and a map  *)
(* from file paths to contents.  One action stands for each point at which *)
(* the program is started, reads a line from the operator, or ends.        *)
(* _clean and construct_search called on their own (SpecText) and          *)
(* organize_gog of misc_renamer.py (SpecGog) have their own                *)
(* specifications over the same variables.                                 *)
(***************************************************************************)
EXTENDS Integers, Sequences, FiniteSets, TLC

VARIABLES
    pc,             \* position of the program
    cwd,            \* os.getcwd(): the process working directory (a path)
    old_dir,        \* rename: the working directory at entry
    files,          \* rename: the list of files taken at start
    idx,            \* rename: position of the for loop in files
    filename,       \* rename_movie: argument
    search_string,  \* rename_movie: argument / local
    page,           \* rename_movie: argument
    json,           \* rename_movie: the last lookup response
    displayed,      \* console: the list print_list printed for json
    lastPrompt,     \* console: the prompt answered by the last step
    lastInput,      \* console: the last line read by raw_input
    request,        \* network: the lookup request issued by the last step
    rounds,         \* network: lookups issued so far for the current file
    fetched,        \* network: poster URLs requested so far
    download,       \* network: the fate of the last step's poster download
    fsDirs,         \* file system: the directories (paths)
    fsFiles,        \* file system: file path -> content
    log,            \* logging: the messages reported so far
    performed,      \* the calls of perform_rename made so far
    exc,            \* the uncaught exception that ended the run, or "none"
    ops,            \* the file and network calls completed by the last step
    helper,         \* a direct call of a text helper: function, argument, result
    dry_run         \* organize_gog: argument

vars == <<pc, cwd, old_dir, files, idx, filename, search_string, page, json,
          displayed, lastPrompt, lastInput, request, rounds, fetched, download,
          fsDirs, fsFiles, log, performed, exc, ops, helper, dry_run>>

\* The variables of the other entry points (_clean and construct_search
\* called directly, organize_gog), which rename never touches.
elsewhere == <<helper, dry_run>>

(***************************************************************************)
(* Bounds of the model.                                                    *)
(***************************************************************************)
MaxRounds == 3      \* lookups issued for one file
MaxCands == 2       \* candidates on one result page
MaxLen == 3         \* characters of a text handed to _clean or construct_search

(***************************************************************************)
(* Text.                                                                   *)
(***************************************************************************)
forbidden_characters == <<"<", ">", "/", "\\", ":", "\"", "|", "?", "*">>

Digits == {"0", "1", "2", "3", "4", "5", "6", "7", "8", "9"}

DigitVal(c) ==
    CASE c = "0" -> 0 [] c = "1" -> 1 [] c = "2" -> 2 [] c = "3" -> 3
      [] c = "4" -> 4 [] c = "5" -> 5 [] c = "6" -> 6 [] c = "7" -> 7
      [] c = "8" -> 8 [] c = "9" -> 9

\* str.strip(): leading and trailing white space removed.
RECURSIVE lstrip(_)
lstrip(s) == IF s # <<>> /\ s[1] = " " THEN lstrip(Tail(s)) ELSE s

RECURSIVE rstrip(_)
rstrip(s) ==
    IF s # <<>> /\ s[Len(s)] = " " THEN rstrip(SubSeq(s, 1, Len(s) - 1)) ELSE s

strip(s) == rstrip(lstrip(s))

RECURSIVE DecimalValue(_)
DecimalValue(ds) ==
    IF ds = <<>> THEN 0
    ELSE 10 * DecimalValue(SubSeq(ds, 1, Len(ds) - 1)) + DigitVal(ds[Len(ds)])

\* int(choice): white space around the literal is ignored, one sign is
\* allowed, then at least one decimal digit; anything else is a ValueError.
int(s) ==
    LET t == strip(s)
        signed == t # <<>> /\ t[1] \in {"+", "-"}
        body == IF signed THEN Tail(t) ELSE t
        ok == body # <<>> /\ \A i \in 1..Len(body) : body[i] \in Digits
    IN  [ok |-> ok,
         val |-> IF ~ok THEN 0
                 ELSE IF signed /\ t[1] = "-" THEN 0 - DecimalValue(body)
                 ELSE DecimalValue(body)]

\* s.rpartition(sep): (head, sep, tail) around the last sep; without a sep
\* the head is empty and the tail is all of s.
LastIndexOf(s, c) ==
    LET at == {i \in 1..Len(s) : s[i] = c}
    IN  IF at = {} THEN 0 ELSE CHOOSE i \in at : \A j \in at : j <= i

rpartition(s, c) ==
    LET i == LastIndexOf(s, c)
    IN  IF i = 0 THEN [head |-> <<>>, tail |-> s]
        ELSE [head |-> SubSeq(s, 1, i - 1), tail |-> SubSeq(s, i + 1, Len(s))]

\* s.replace(c, ' ') for a single character c.
replace_char(s, c) == [i \in 1..Len(s) |-> IF s[i] = c THEN " " ELSE s[i]]

\* s.replace('  ', ' '): the non-overlapping pairs of spaces, left to right.
RECURSIVE replace_double(_)
replace_double(s) ==
    IF Len(s) < 2 THEN s
    ELSE IF s[1] = " " /\ s[2] = " "
         THEN <<" ">> \o replace_double(SubSeq(s, 3, Len(s)))
         ELSE <<s[1]>> \o replace_double(Tail(s))

has_double(s) == \E i \in 1..(Len(s) - 1) : s[i] = " " /\ s[i + 1] = " "

\* while '  ' in filename: filename = filename.replace('  ', ' ')
collapse_once(s) == replace_double(s)

RECURSIVE collapse(_)
collapse(s) == IF has_double(s) THEN collapse(replace_double(s)) ELSE s

\* for x in forbidden_characters: filename = filename.replace(x, ' ')
RECURSIVE replace_forbidden(_, _)
replace_forbidden(s, k) ==
    IF k > Len(forbidden_characters) THEN s
    ELSE replace_forbidden(replace_char(s, forbidden_characters[k]), k + 1)

_clean(name) == collapse(replace_forbidden(name, 1))

construct_search(f) == replace_char(rpartition(f, ".").head, ".")

(***************************************************************************)
(* Paths and the file system.                                              *)
(***************************************************************************)
\* The components of a path string, split at '/'.
RECURSIVE split_path(_)
split_path(s) ==
    LET at == {i \in 1..Len(s) : s[i] = "/"}
    IN  IF at = {} THEN <<s>>
        ELSE LET i == CHOOSE k \in at : \A j \in at : k <= j
             IN  <<SubSeq(s, 1, i - 1)>> \o split_path(SubSeq(s, i + 1, Len(s)))

\* A relative path string resolved against a directory; '..' is the parent.
RECURSIVE walk(_, _)
walk(dir, comps) ==
    IF comps = <<>> THEN dir
    ELSE IF comps[1] = <<".", ".">>
         THEN walk(IF dir = <<>> THEN dir ELSE SubSeq(dir, 1, Len(dir) - 1),
                   Tail(comps))
         ELSE walk(Append(dir, comps[1]), Tail(comps))

resolve(dir, s) == walk(dir, split_path(s))

parent(p) == SubSeq(p, 1, Len(p) - 1)

\* os.path.join(a, b) for a relative b.
path_join(a, b) == a \o <<"/">> \o b

\* os.path.exists, os.path.isfile on a resolved path.
exists_files_only(dirs, fls, p) == p \in DOMAIN fls

exists(dirs, fls, p) == p \in dirs \/ p \in DOMAIN fls

isfile(fls, p) == p \in DOMAIN fls

\* shutil.move(src, dst) of a file to a path that does not exist yet.
move(fls, src, dst) ==
    [q \in (DOMAIN fls \ {src}) \cup {dst} |-> IF q = dst THEN fls[src] ELSE fls[q]]

\* open(p, 'wb') followed by write(content): p is created or replaced.
write_file(fls, p, content) ==
    [q \in DOMAIN fls \cup {p} |-> IF q = p THEN content ELSE fls[q]]

(***************************************************************************)
(* The inputs: the directory, the lookup service, the operator.            *)
(***************************************************************************)
StartDir == << <<"w">> >>           \* the working directory at start
directory == <<"d">>                \* the argument of rename
BaseDir == resolve(StartDir, directory)

MovieA == <<"a", ".", "b", ".", "m">>   \* extension m, search string "a b"
MovieJ == <<"j">>                       \* no '.', so no extension to remove
HiddenFile == <<".", "h">>
SubDir == <<"s">>
TakenDir == <<"T", " ", "(", "1", ")">>

data(name) == [kind |-> "data", of |-> name]
image(url) == [kind |-> "image", of |-> url]

\* The directory contents the run may start from: one or both movie files
\* beside a hidden file and a subdirectory, and in one of them a folder that
\* is already named like a destination.
Listings ==
    { [names |-> {MovieA, HiddenFile}, dirs |-> {SubDir, TakenDir}],
      [names |-> {MovieJ, HiddenFile}, dirs |-> {SubDir}],
      [names |-> {MovieA, MovieJ, HiddenFile}, dirs |-> {SubDir}] }

NA == <<"N", "/", "A">>
PosterJ == <<"u", ".", "j">>            \* image extension j

Candidates ==
    { [Title |-> <<"T", ":">>, Year |-> <<"1">>, Type |-> <<"m">>, Poster |-> NA],
      [Title |-> <<"f", "o", "l", "d", "e", "r">>, Year |-> <<"2">>,
       Type |-> <<"m">>, Poster |-> PosterJ],
      [Title |-> <<"U">>, Year |-> <<"2">>, Type |-> <<"s">>] }

\* A result page: up to MaxCands different candidates in some order.
Pages ==
    UNION {{p \in [1..n -> Candidates] :
               \A i, j \in 1..n : p[i] = p[j] => i = j} : n \in 1..MaxCands}

\* What the lookup service may answer to a request.
Responses == {[Error |-> "Movie not found!"]} \cup {[Search |-> p] : p \in Pages}

\* The lines the operator may type at a prompt.
Inputs ==
    { <<>>, <<"n">>, <<"0">>, <<"1">>, <<"2">>, <<"-", "1">>, <<" ", "1">>,
      <<"a">>, <<"1", "a">> }

\* What may happen to the poster download: the GET succeeds and the file
\* opens, the GET raises, or open() raises.
PosterIO == {"ok", "get_raises", "open_raises"}

Orders(S) == {o \in [1..Cardinality(S) -> S] : \A x \in S : \E i \in DOMAIN o : o[i] = x}

(***************************************************************************)
(* perform_rename.                                                         *)
(***************************************************************************)
report(level, text, about) == [level |-> level, text |-> text, about |-> about]

\* "{} ({})".format(entry['Title'], entry['Year']), cleaned.
new_dir_of(entry) == _clean(entry.Title \o <<" ", "(">> \o entry.Year \o <<")">>)

\* os.path.join(new_dir, _clean("{}.{}".format(entry['Title'], file_type)))
new_name_of(f, entry) ==
    path_join(new_dir_of(entry),
              _clean(entry.Title \o <<".">> \o rpartition(f, ".").tail))

\* 'folder.' + entry['Poster'].rpartition('.')[-1]
poster_name_of(entry) ==
    <<"f", "o", "l", "d", "e", "r", ".">> \o rpartition(entry.Poster, ".").tail

\* if 'Poster' in entry
has_poster(entry) == "Poster" \in DOMAIN entry

\* if entry['Poster'] == 'N/A'
poster_missing_never(entry) == FALSE

poster_missing(entry) == entry.Poster = NA

\* The calls that change the file system or use the network, as records.
mkdir_op(d) == [op |-> "mkdir", at |-> d]

move_op(src, dst) == [op |-> "move", from |-> src, at |-> dst]

get_op(url) == [op |-> "get", url |-> url]

write_op(target) == [op |-> "write", at |-> target]

\* Lines 105-106: os.mkdir(new_dir), then shutil.move(filename, new_name).
rename_steps_move_first(dirPath, src, dst) ==
    <<move_op(src, dst), mkdir_op(dirPath)>>

rename_steps(dirPath, src, dst) == <<mkdir_op(dirPath), move_op(src, dst)>>

\* The call perform_rename(f, entry), with io the fate of the download.
perform_rename(f, entry, io) ==
    LET new_dir == new_dir_of(entry)
        dirPath == resolve(cwd, new_dir)
        new_name == new_name_of(f, entry)
        src == resolve(cwd, f)
        dst == resolve(cwd, new_name)
    IN  /\ performed' = Append(performed, [filename |-> f, entry |-> entry])
        /\ IF exists(fsDirs, fsFiles, dirPath)
           THEN \* logging.error(...); return
                /\ log' = log \cup {report("error", "already exists", new_dir)}
                /\ exc' = "none"
                /\ download' = "none"
                /\ ops' = <<>>
                /\ UNCHANGED <<cwd, fsDirs, fsFiles, fetched>>
           ELSE IF dirPath \in fsDirs \/ dirPath \in DOMAIN fsFiles
           THEN \* os.mkdir(new_dir) raises
                /\ exc' = "OSError in mkdir"
                /\ download' = "none"
                /\ ops' = <<>>
                /\ UNCHANGED <<cwd, fsDirs, fsFiles, fetched, log>>
           ELSE IF ~isfile(fsFiles, src)
           THEN \* os.mkdir(new_dir); shutil.move raises
                /\ fsDirs' = fsDirs \cup {dirPath}
                /\ exc' = "IOError in move"
                /\ download' = "none"
                /\ ops' = <<mkdir_op(dirPath)>>
                /\ UNCHANGED <<cwd, fsFiles, fetched, log>>
           ELSE \* os.mkdir(new_dir); shutil.move(...); os.chdir(new_dir)
                LET dirs1 == fsDirs \cup {dirPath}
                    files1 == move(fsFiles, src, dst)
                    cwd1 == resolve(cwd, new_dir)
                    ops1 == rename_steps(dirPath, src, dst)
                IN  /\ fsDirs' = dirs1
                    /\ IF ~has_poster(entry)
                       THEN /\ cwd' = resolve(cwd1, <<".", ".">>)
                            /\ fsFiles' = files1
                            /\ exc' = "none"
                            /\ download' = "none"
                            /\ ops' = ops1
                            /\ UNCHANGED <<fetched, log>>
                       ELSE IF poster_missing(entry)
                       THEN /\ log' = log \cup {report("warning", "no poster", new_name)}
                            /\ cwd' = resolve(cwd1, <<".", ".">>)
                            /\ fsFiles' = files1
                            /\ exc' = "none"
                            /\ download' = "none"
                            /\ ops' = ops1
                            /\ UNCHANGED fetched
                       ELSE LET target == resolve(cwd1, poster_name_of(entry))
                                opens == /\ io = "ok"
                                         /\ parent(target) \in dirs1
                                         /\ target \notin dirs1
                            IN  /\ fetched' = Append(fetched, entry.Poster)
                                /\ download' = IF io = "get_raises" THEN io
                                                ELSE IF ~opens THEN "open_raises"
                                                ELSE "ok"
                                /\ UNCHANGED log
                                /\ IF io = "get_raises"
                                   THEN /\ exc' = "ConnectionError"
                                        /\ cwd' = cwd1
                                        /\ fsFiles' = files1
                                        /\ ops' = ops1
                                   ELSE IF ~opens
                                   THEN /\ exc' = "IOError in open"
                                        /\ cwd' = cwd1
                                        /\ fsFiles' = files1
                                        /\ ops' = Append(ops1, get_op(entry.Poster))
                                   ELSE /\ exc' = "none"
                                        /\ fsFiles' = write_file(files1, target,
                                                                 image(entry.Poster))
                                        /\ cwd' = resolve(cwd1, <<".", ".">>)
                                        /\ ops' = ops1 \o <<get_op(entry.Poster),
                                                             write_op(target)>>

(***************************************************************************)
(* rename_movie.                                                           *)
(***************************************************************************)
\* json['Search'][i] for a Python index i, which counts from the end when
\* it is negative; outside -len..len-1 the access raises IndexError.
index_ok(list, i) == 0 - Len(list) <= i /\ i < Len(list)

item(list, i) == list[(IF i < 0 THEN Len(list) + i ELSE i) + 1]

\* print_list: one numbered line for each entry of json['Search'].
print_list(response) ==
    [i \in 1..Len(response.Search) |->
        [n |-> i, Title |-> response.Search[i].Title,
         Year |-> response.Search[i].Year, Type |-> response.Search[i].Type]]

\* if num == 0: return
is_skip_never(num) == FALSE

is_skip(num) == num = 0

\* entry = json['Search'][num-1]
entry_index_off_by_one(num) == num

entry_index(num) == num - 1

\* rename_movie(filename, search_string, page=page+1)
next_page_call_forgets_search(s, p) == [search_string |-> <<>>, page |-> p + 1]

next_page_call(s, p) == [search_string |-> s, page |-> p + 1]

\* rename_movie(filename, search_string=choice)
new_search_call(choice) == [search_string |-> choice, page |-> 1]

\* if not search_string: search_string = construct_search(filename)
effective_search_ignores_argument(f, s) == construct_search(f)

effective_search(f, s) == IF s = <<>> THEN construct_search(f) ELSE s

\* No lookup request goes out.
no_request == [issued |-> FALSE, s |-> <<>>, page |-> 1]

\* requests.get(omdb_url, {'s': s, 'page': p}).json() answering response,
\* then the prompt the program stops at.
lookup(s, p, response) ==
    /\ search_string' = s
    /\ page' = p
    /\ request' = [issued |-> TRUE, s |-> s, page |-> p]
    /\ json' = response
    /\ pc' = IF "Error" \in DOMAIN response THEN "error_prompt" ELSE "choice_prompt"

\* A call rename_movie(f, s, p) up to its first prompt.
rename_movie_on_search_string(f, s, p, response) ==
    /\ filename' = effective_search(f, s)
    /\ lookup(effective_search(f, s), p, response)
    /\ displayed' = IF "Error" \in DOMAIN response THEN <<>>
                    ELSE print_list(response)

rename_movie(f, s, p, response) ==
    /\ filename' = f
    /\ lookup(effective_search(f, s), p, response)
    /\ displayed' = IF "Error" \in DOMAIN response THEN <<>>
                    ELSE print_list(response)

\* rename_movie returns to the loop of rename.
return ==
    /\ pc' = "loop"
    /\ idx' = idx + 1
    /\ filename' = <<>>
    /\ search_string' = <<>>
    /\ page' = 1
    /\ json' = [Search |-> <<>>]
    /\ displayed' = <<>>
    /\ request' = no_request
    /\ rounds' = 0

(***************************************************************************)
(* The program.                                                            *)
(***************************************************************************)
\* os.listdir(d): the names of the entries of directory d.
listdir(dirs, fls, d) ==
    {q[Len(q)] : q \in {r \in dirs \cup DOMAIN fls : r # <<>> /\ parent(r) = d}}

startswith(s, c) == s # <<>> /\ s[1] = c

\* No text helper has been called directly.
no_call == [fn |-> "none", arg |-> <<>>, ret |-> <<>>]

Init ==
    /\ pc = "start"
    /\ lastPrompt = "none"
    /\ download = "none"
    /\ cwd = StartDir
    /\ old_dir = <<>>
    /\ files = <<>>
    /\ idx = 1
    /\ filename = <<>>
    /\ search_string = <<>>
    /\ page = 1
    /\ json = [Search |-> <<>>]
    /\ displayed = <<>>
    /\ lastInput = <<>>
    /\ request = no_request
    /\ rounds = 0
    /\ fetched = <<>>
    /\ \E l \in Listings :
          /\ fsDirs = {StartDir, BaseDir} \cup {Append(BaseDir, n) : n \in l.dirs}
          /\ fsFiles = [q \in {Append(BaseDir, n) : n \in l.names} |->
                           data(q[Len(q)])]
    /\ log = {}
    /\ performed = <<>>
    /\ exc = "none"
    /\ ops = <<>>
    /\ helper = no_call
    /\ dry_run = FALSE

\* rename, lines 49-51: remember the working directory, enter the directory
\* and list its regular files that are not hidden, in the order of listdir.
Start ==
    /\ pc = "start"
    /\ old_dir' = cwd
    /\ cwd' = resolve(cwd, directory)
    /\ files' \in Orders({f \in listdir(fsDirs, fsFiles, cwd') :
                            /\ isfile(fsFiles, resolve(cwd', f))
                            /\ ~startswith(f, ".")})
    /\ idx' = 1
    /\ pc' = "loop"
    /\ request' = no_request
    /\ lastPrompt' = "none"
    /\ ops' = <<>>
    /\ UNCHANGED <<filename, search_string, page, json, displayed, lastInput,
                   rounds, fetched, download, fsDirs, fsFiles, log, performed,
                   exc, elsewhere>>

\* rename, lines 52-53: rename_movie(f) for the next file, up to its prompt.
NextFile ==
    /\ pc = "loop"
    /\ idx <= Len(files)
    /\ \E response \in Responses : rename_movie(files[idx], <<>>, 1, response)
    /\ rounds' = 1
    /\ lastPrompt' = "none"
    /\ lastInput' = <<>>
    /\ download' = "none"
    /\ ops' = <<>>
    /\ UNCHANGED <<cwd, old_dir, files, idx, fetched, fsDirs, fsFiles, log,
                   performed, exc, elsewhere>>

\* rename_movie, lines 70-78: the operator answers the error prompt.
ErrorReply ==
    /\ pc = "error_prompt"
    /\ lastPrompt' = "error"
    /\ download' = "none"
    /\ \E line \in Inputs :
          /\ lastInput' = line
          /\ IF line = <<>>
             THEN return
             ELSE /\ rounds < MaxRounds
                  /\ rounds' = rounds + 1
                  /\ \E response \in Responses :
                        /\ lookup(line, page, response)
                        /\ displayed' = IF "Error" \in DOMAIN response THEN <<>>
                                        ELSE print_list(response)
                  /\ UNCHANGED <<idx, filename>>
    /\ ops' = <<>>
    /\ UNCHANGED <<cwd, old_dir, files, fetched, fsDirs, fsFiles, log,
                   performed, exc, elsewhere>>

\* rename_movie, lines 79-89: the operator answers the selection prompt.
ChoiceReply ==
    /\ pc = "choice_prompt"
    /\ lastPrompt' = "choice"
    /\ \E choice \in Inputs :
          LET num == int(choice)
              again(call) ==
                  /\ rounds < MaxRounds
                  /\ rounds' = rounds + 1
                  /\ \E response \in Responses :
                        rename_movie(filename, call.search_string, call.page, response)
                  /\ download' = "none"
                  /\ ops' = <<>>
                  /\ UNCHANGED <<idx, cwd, fetched, fsDirs, fsFiles, log,
                                 performed, exc>>
          IN  /\ lastInput' = choice
              /\ IF choice = <<"n">>
                 THEN again(next_page_call(search_string, page))
                 ELSE IF ~num.ok
                 THEN again(new_search_call(choice))
                 ELSE IF is_skip(num.val)
                 THEN /\ return
                      /\ download' = "none"
                      /\ ops' = <<>>
                      /\ UNCHANGED <<cwd, fetched, fsDirs, fsFiles, log,
                                     performed, exc>>
                 ELSE IF ~index_ok(json.Search, entry_index(num.val))
                 THEN again(new_search_call(choice))
                 ELSE /\ \E io \in PosterIO :
                            perform_rename(filename,
                                           item(json.Search, entry_index(num.val)), io)
                      /\ IF exc' = "none"
                         THEN return
                         ELSE /\ pc' = "crashed"
                              /\ request' = no_request
                              /\ UNCHANGED <<idx, filename, search_string, page,
                                             json, displayed, rounds>>
    /\ UNCHANGED <<old_dir, files, elsewhere>>

\* rename, line 55: after the last file, back to the first directory.
Finish ==
    /\ pc = "loop"
    /\ idx > Len(files)
    /\ cwd' = old_dir
    /\ pc' = "done"
    /\ request' = no_request
    /\ lastPrompt' = "none"
    /\ download' = "none"
    /\ ops' = <<>>
    /\ UNCHANGED <<old_dir, files, idx, filename, search_string, page, json,
                   displayed, lastInput, rounds, fetched, fsDirs, fsFiles,
                   log, performed, exc, elsewhere>>

Next == Start \/ NextFile \/ ErrorReply \/ ChoiceReply \/ Finish

Spec == Init /\ [][Next]_vars

(***************************************************************************)
(* _clean and construct_search called on their own.                        *)
(***************************************************************************)
\* The characters of the texts: the forbidden ones, the space, the dot and
\* a letter.
TextChars == {forbidden_characters[k] : k \in DOMAIN forbidden_characters}
                 \cup {" ", ".", "a"}

Texts == UNION {[1..n -> TextChars] : n \in 0..MaxLen}

\* The state of rename and rename_movie when they are not running.
RenameIdle ==
    /\ lastPrompt = "none"
    /\ download = "none"
    /\ old_dir = <<>>
    /\ filename = <<>>
    /\ search_string = <<>>
    /\ page = 1
    /\ json = [Search |-> <<>>]
    /\ displayed = <<>>
    /\ lastInput = <<>>
    /\ request = no_request
    /\ rounds = 0
    /\ fetched = <<>>
    /\ performed = <<>>

renameVars == <<lastPrompt, download, old_dir, filename, search_string, page,
                json, displayed, lastInput, request, rounds, fetched, performed>>

InitText ==
    /\ pc = "text"
    /\ RenameIdle
    /\ cwd = StartDir
    /\ files = <<>>
    /\ idx = 1
    /\ fsDirs = {StartDir}
    /\ fsFiles = <<>>
    /\ log = {}
    /\ exc = "none"
    /\ ops = <<>>
    /\ dry_run = FALSE
    /\ \E t \in Texts : helper = [fn |-> "none", arg |-> t, ret |-> <<>>]

\* _clean(filename), lines 205-220.
CallClean ==
    /\ helper.fn = "none"
    /\ helper' = [fn |-> "_clean", arg |-> helper.arg, ret |-> _clean(helper.arg)]
    /\ UNCHANGED <<pc, cwd, files, idx, fsDirs, fsFiles, log, exc, ops, dry_run,
                   renameVars>>

\* construct_search(filename), lines 135-148.
CallConstructSearch ==
    /\ helper.fn = "none"
    /\ helper' = [fn |-> "construct_search", arg |-> helper.arg,
                  ret |-> construct_search(helper.arg)]
    /\ UNCHANGED <<pc, cwd, files, idx, fsDirs, fsFiles, log, exc, ops, dry_run,
                   renameVars>>

NextText == CallClean \/ CallConstructSearch

SpecText == InitText /\ [][NextText]_vars

(***************************************************************************)
(* organize_gog (misc_renamer.py).                                         *)
(***************************************************************************)
\* s.split(sep): the texts between the separators.
RECURSIVE split(_, _)
split(s, sep) ==
    IF \A i \in DOMAIN s : s[i] # sep THEN <<s>>
    ELSE LET i == CHOOSE k \in DOMAIN s :
                     s[k] = sep /\ \A j \in 1..(k - 1) : s[j] # sep
         IN  <<SubSeq(s, 1, i - 1)>> \o split(SubSeq(s, i + 1, Len(s)), sep)

\* sep.join(tokens)
RECURSIVE join(_, _)
join(tokens, sep) ==
    IF tokens = <<>> THEN <<>>
    ELSE IF Len(tokens) = 1 THEN tokens[1]
    ELSE tokens[1] \o <<sep>> \o join(Tail(tokens), sep)

\* sections[1:-1]
inner(sections) == SubSeq(sections, 2, Len(sections) - 1)

\* os.path.join(path, name) as a path: joining the empty name gives
\* "path/", which is the directory path itself.
dir_path_of(path, name) == IF name = <<>> THEN path ELSE Append(path, name)

\* Line 30: if not os.path.exists(dir_path) and not dry_run
makes_dir_when_dry(present, dry) == ~present

makes_dir(present, dry) == ~present /\ ~dry

\* Line 32: os.path.isdir(dir_path) or (dry_run and not os.path.exists(dir_path))
usable(dirs, fls, d, dry) == d \in dirs \/ (dry /\ ~exists(dirs, fls, d))

\* The names of the installers and of what else lies in the directory.
Setup == <<"s", "e", "t", "u", "p">>

installer(game, version) == Setup \o <<"_">> \o game \o <<"_">> \o version

SetupX1 == installer(<<"x">>, <<"1">>)
SetupX2 == installer(<<"x">>, <<"2">>)
SetupAB1 == installer(<<"a", "_", "b">>, <<"1">>)
SetupD1 == installer(<<"d">>, <<"1">>)
SetupY == Setup \o <<"_", "y">>
OtherX1 == <<"o", "_", "x", "_", "1">>
GameX == <<"x">>

GogPath == << <<"g">> >>            \* the argument path

\* What the directory may hold: regular files, directories and files
\* inside those directories.
GogListings ==
    { [names |-> {SetupX1, GameX, SetupAB1, OtherX1}, dirs |-> {}, inside |-> {}],
      [names |-> {SetupX1, SetupX2, OtherX1}, dirs |-> {SetupD1}, inside |-> {}],
      [names |-> {SetupX1, SetupY, OtherX1}, dirs |-> {GameX}, inside |-> {}],
      [names |-> {SetupX1, SetupAB1}, dirs |-> {GameX},
       inside |-> {<<GameX, SetupX1>>}] }

InitGog ==
    /\ pc = "gog_start"
    /\ RenameIdle
    /\ cwd = StartDir
    /\ files = <<>>
    /\ idx = 1
    /\ \E l \in GogListings :
          /\ fsDirs = {StartDir, GogPath} \cup {Append(GogPath, n) : n \in l.dirs}
          /\ fsFiles = [q \in {Append(GogPath, n) : n \in l.names}
                                \cup {GogPath \o r : r \in l.inside} |->
                           data(q[Len(q)])]
    /\ log = {}
    /\ exc = "none"
    /\ ops = <<>>
    /\ helper = no_call
    /\ dry_run \in BOOLEAN

\* Line 21: for f in os.listdir(path), the entries in the order of listdir.
GogStart ==
    /\ pc = "gog_start"
    /\ files' \in Orders(listdir(fsDirs, fsFiles, GogPath))
    /\ idx' = 1
    /\ pc' = "gog_loop"
    /\ UNCHANGED <<cwd, fsDirs, fsFiles, log, exc, ops, helper, dry_run, renameVars>>

\* Lines 22-37: the body of the loop for the entry f.  shutil.move into a
\* directory raises shutil.Error when the directory already holds an
\* entry of that name.
organize_one(f) ==
    LET src == Append(GogPath, f)
        sections == split(f, "_")
        dir_path == dir_path_of(GogPath, join(inner(sections), "_"))
        made == makes_dir(exists(fsDirs, fsFiles, dir_path), dry_run)
        dirs1 == IF made THEN fsDirs \cup {dir_path} ELSE fsDirs
        ops1 == IF made THEN <<mkdir_op(dir_path)>> ELSE <<>>
        dst == Append(dir_path, f)
        processing == log \cup {report("debug", "Processing", f)}
    IN  IF ~isfile(fsFiles, src)
        THEN /\ log' = log \cup {report("debug", "Skipping", f)}
             /\ ops' = <<>>
             /\ exc' = "none"
             /\ UNCHANGED <<fsDirs, fsFiles>>
        ELSE IF sections[1] # Setup
        THEN /\ log' = processing
             /\ ops' = <<>>
             /\ exc' = "none"
             /\ UNCHANGED <<fsDirs, fsFiles>>
        ELSE IF ~usable(dirs1, fsFiles, dir_path, dry_run)
        THEN /\ log' = processing
                         \cup {report("error", "exists and is not a directory", dir_path)}
             /\ fsDirs' = dirs1
             /\ ops' = ops1
             /\ exc' = "none"
             /\ UNCHANGED fsFiles
        ELSE IF dry_run
        THEN /\ log' = processing \cup {report("info", "moved to", f)}
             /\ fsDirs' = dirs1
             /\ ops' = ops1
             /\ exc' = "none"
             /\ UNCHANGED fsFiles
        ELSE IF exists(dirs1, fsFiles, dst)
        THEN \* shutil.move raises
             /\ log' = processing
             /\ fsDirs' = dirs1
             /\ ops' = ops1
             /\ exc' = "shutil.Error in move"
             /\ UNCHANGED fsFiles
        ELSE /\ log' = processing \cup {report("info", "moved to", f)}
             /\ fsDirs' = dirs1
             /\ fsFiles' = move(fsFiles, src, dst)
             /\ ops' = Append(ops1, move_op(src, dst))
             /\ exc' = "none"

GogStep ==
    /\ pc = "gog_loop"
    /\ idx <= Len(files)
    /\ organize_one(files[idx])
    /\ IF exc' = "none"
       THEN idx' = idx + 1 /\ pc' = pc
       ELSE idx' = idx /\ pc' = "crashed"
    /\ UNCHANGED <<cwd, files, helper, dry_run, renameVars>>

\* The loop is over: organize_gog returns.
GogFinish ==
    /\ pc = "gog_loop"
    /\ idx > Len(files)
    /\ pc' = "gog_done"
    /\ ops' = <<>>
    /\ UNCHANGED <<cwd, files, idx, fsDirs, fsFiles, log, exc, helper, dry_run,
                   renameVars>>

NextGog == GogStart \/ GogStep \/ GogFinish

SpecGog == InitGog /\ [][NextGog]_vars

(***************************************************************************)
(* Properties.                                                             *)
(***************************************************************************)
\* The steps of the properties below.
AnswersChoice == pc = "choice_prompt" /\ lastPrompt' = "choice"

AnswersError == pc = "error_prompt" /\ lastPrompt' = "error"

CallsPerformRename == Len(performed') = Len(performed) + 1

LastCall == performed[Len(performed)]

NewCall == performed'[Len(performed')]

new_search_request(text) == [issued |-> TRUE, s |-> text, page |-> 1]

\* "<folder>/<cleaned Title>.<original extension>" under the base directory.
moved_to(call) ==
    Append(Append(BaseDir, new_dir_of(call.entry)),
           _clean(call.entry.Title \o <<".">> \o rpartition(call.filename, ".").tail))

\* C1: at the selection prompt with N candidates shown, an input that parses
\* as an integer n with n < 0 or n > N confirms no candidate and renames
\* nothing; the next lookup has the input text as search string and page 1.
C1_OutOfRangeIsNewSearch ==
    [][(/\ AnswersChoice
        /\ int(lastInput').ok
        /\ (int(lastInput').val < 0 \/ int(lastInput').val > Len(displayed)))
       => /\ performed' = performed
          /\ UNCHANGED <<fsDirs, fsFiles>>
          /\ request' = new_search_request(lastInput')]_vars

\* C2: perform_rename leaves the working directory as it found it on every
\* exit path, a failed poster download or write included.
C2_WorkingDirectoryRestored ==
    [][CallsPerformRename => cwd' = cwd]_vars

\* C3: a poster download or write that fails after the rename is reported,
\* the folder and the moved file stay, and the run goes on to the next file.
C3_PosterFailureNonFatal ==
    [][(CallsPerformRename /\ download' \in {"get_raises", "open_raises"})
       => /\ resolve(BaseDir, new_dir_of(NewCall.entry)) \in fsDirs'
          /\ moved_to(NewCall) \in DOMAIN fsFiles'
          /\ log' # log
          /\ pc' = "loop"
          /\ exc' = "none"]_vars

\* C4: a non-empty line typed at the lookup-error prompt is looked up with
\* page 1, whatever the page was when the error occurred.
C4_RevisedSearchFromPageOne ==
    [][(AnswersError /\ lastInput' # <<>>)
       => request' = new_search_request(lastInput')]_vars

\* C5: when the cleaned destination "<Title> (<Year>)" already exists in
\* the base directory, perform_rename reports a conflict and changes
\* neither the file system nor the working directory, and fetches nothing.
C5_ConflictMutatesNothing ==
    [][(/\ CallsPerformRename
        /\ LET dest == Append(BaseDir, new_dir_of(NewCall.entry))
           IN  dest \in fsDirs \/ dest \in DOMAIN fsFiles)
       => /\ UNCHANGED <<fsDirs, fsFiles, cwd, fetched>>
          /\ download' = "none"
          /\ exc' = "none"
          /\ report("error", "already exists", new_dir_of(NewCall.entry)) \in log'
          /\ Append(BaseDir, NewCall.filename) \in DOMAIN fsFiles']_vars

C5_Witness ==
    /\ pc = "loop"
    /\ performed # <<>>
    /\ report("error", "already exists", new_dir_of(LastCall.entry)) \in log
    /\ Append(BaseDir, LastCall.filename) \in DOMAIN fsFiles

\* C6: 'n' at the selection prompt looks up the search string that produced
\* the displayed page, also one revised at the error prompt, with the page
\* number one higher; the filename stays.
C6_NextPageKeepsSearch ==
    [][(AnswersChoice /\ lastInput' = <<"n">>)
       => /\ request.issued /\ request'.issued
          /\ request'.s = request.s
          /\ request'.page = request.page + 1
          /\ search_string' = search_string
          /\ page' = page + 1
          /\ filename' = filename
          /\ performed' = performed]_vars

C6_Witness ==
    /\ lastPrompt = "choice"
    /\ lastInput = <<"n">>
    /\ request = [issued |-> TRUE, s |-> <<"a">>, page |-> 2]
    /\ filename = MovieA

\* C7: an input that parses as an integer n with 1 <= n <= N ends the
\* disambiguation as confirmed: perform_rename is called once with the
\* original filename and the n-th candidate displayed, and no further
\* lookup is issued for the file.
C7_InRangeConfirms ==
    [][(/\ AnswersChoice
        /\ int(lastInput').ok
        /\ int(lastInput').val \in 1..Len(displayed))
       => LET n == int(lastInput').val
          IN  /\ performed' = Append(performed, [filename |-> filename,
                                                 entry |-> json.Search[n]])
              /\ displayed[n].n = n
              /\ displayed[n].Title = NewCall.entry.Title
              /\ displayed[n].Year = NewCall.entry.Year
              /\ ~request'.issued
              /\ rounds' <= rounds
              /\ pc' \in {"loop", "crashed"}]_vars

C7_Witness ==
    /\ pc = "loop"
    /\ lastPrompt = "choice"
    /\ lastInput = <<"2">>
    /\ performed # <<>>
    /\ exists(fsDirs, fsFiles, Append(BaseDir, new_dir_of(LastCall.entry)))

\* C8: a file skipped by 0 at the selection prompt or by an empty line at
\* the error prompt is left without a call of perform_rename and without a
\* change of the file system or of the working directory.
C8_SkipMutatesNothing ==
    [][(\/ AnswersChoice /\ int(lastInput').ok /\ int(lastInput').val = 0
        \/ AnswersError /\ lastInput' = <<>>)
       => /\ performed' = performed
          /\ UNCHANGED <<fsDirs, fsFiles, cwd, fetched, log>>
          /\ ~request'.issued
          /\ exc' = "none"
          /\ pc' = "loop"
          /\ idx' = idx + 1]_vars

C8_Witness ==
    /\ pc = "loop"
    /\ idx = 3
    /\ lastPrompt = "choice"
    /\ lastInput = <<"0">>
    /\ performed = <<>>
    /\ \A f \in {MovieA, MovieJ} : Append(BaseDir, f) \in DOMAIN fsFiles

\* C9 as stated: every selection-prompt input that is not 'n' and does not
\* parse as an integer is the search string of the next lookup, at page 1,
\* and nothing is renamed.
C9_NonIntegerIsNewSearch ==
    [][(AnswersChoice /\ lastInput' # <<"n">> /\ ~int(lastInput').ok)
       => /\ request' = new_search_request(lastInput')
          /\ performed' = performed
          /\ UNCHANGED <<fsDirs, fsFiles>>]_vars

\* C9, amended: every non-empty selection-prompt input that is not 'n' and
\* does not parse as an integer is the search string of the next lookup, at
\* page 1, and nothing is renamed.
C9_NonEmptyNonIntegerIsNewSearch ==
    [][(/\ AnswersChoice
        /\ lastInput' # <<>>
        /\ lastInput' # <<"n">>
        /\ ~int(lastInput').ok)
       => /\ request' = new_search_request(lastInput')
          /\ search_string' = lastInput'
          /\ page' = 1
          /\ filename' = filename
          /\ performed' = performed
          /\ UNCHANGED <<fsDirs, fsFiles>>]_vars

C9_Witness ==
    /\ lastPrompt = "choice"
    /\ lastInput = <<"1", "a">>
    /\ request = new_search_request(<<"1", "a">>)
    /\ rounds = 3
    /\ filename = MovieA

\* C10: for a candidate whose poster is 'N/A' and whose destination does
\* not exist, perform_rename creates the folder, moves the file, reports
\* that there is no poster, requests and writes no image, and restores the
\* working directory.
C10_NoPosterSentinel ==
    [][(/\ CallsPerformRename
        /\ has_poster(NewCall.entry)
        /\ NewCall.entry.Poster = NA
        /\ LET dest == Append(BaseDir, new_dir_of(NewCall.entry))
           IN  dest \notin fsDirs /\ dest \notin DOMAIN fsFiles)
       => LET dest == Append(BaseDir, new_dir_of(NewCall.entry))
              src == Append(BaseDir, NewCall.filename)
              dst == moved_to(NewCall)
          IN  /\ fsDirs' = fsDirs \cup {dest}
              /\ parent(dst) = dest
              /\ DOMAIN fsFiles' = (DOMAIN fsFiles \ {src}) \cup {dst}
              /\ fsFiles'[dst] = fsFiles[src]
              /\ \A q \in DOMAIN fsFiles' \ {dst} : fsFiles'[q] = fsFiles[q]
              /\ log' = log \cup {report("warning", "no poster",
                                         new_name_of(NewCall.filename, NewCall.entry))}
              /\ fetched' = fetched
              /\ download' = "none"
              /\ cwd' = cwd
              /\ exc' = "none"]_vars

C10_Witness ==
    /\ pc = "loop"
    /\ performed # <<>>
    /\ has_poster(LastCall.entry)
    /\ LastCall.entry.Poster = NA
    /\ \E m \in log : m.text = "no poster"
    /\ fetched = <<>>
    /\ moved_to(LastCall) \in DOMAIN fsFiles

\* The position of the first call of kind k among the calls of a step, or
\* 0 when the step made no such call.
first_op(calls, k) ==
    IF \E i \in DOMAIN calls : calls[i].op = k
    THEN CHOOSE i \in DOMAIN calls :
            /\ calls[i].op = k
            /\ \A j \in 1..(i - 1) : calls[j].op # k
    ELSE 0

\* C11: on a confirmed candidate whose destination does not exist,
\* perform_rename first makes the folder clean("<Title> (<Year>)"), then
\* moves the file to "<folder>/<cleaned Title>.<original extension>", and
\* only after that requests the poster and writes "<folder>/folder.<image
\* extension>": no move comes before the mkdir, no poster request or write
\* before the move.
C11_FolderThenMoveThenPoster ==
    [][(/\ CallsPerformRename
        /\ LET dest == Append(BaseDir, new_dir_of(NewCall.entry))
           IN  dest \notin fsDirs /\ dest \notin DOMAIN fsFiles)
       => LET dest == Append(BaseDir, new_dir_of(NewCall.entry))
              src == Append(BaseDir, NewCall.filename)
              dst == moved_to(NewCall)
              made == first_op(ops', "mkdir")
              moved == first_op(ops', "move")
              got == first_op(ops', "get")
              wrote == first_op(ops', "write")
          IN  /\ made = 1 /\ ops'[made] = mkdir_op(dest)
              /\ moved = 2 /\ ops'[moved] = move_op(src, dst)
              /\ parent(dst) = dest
              /\ dest \in fsDirs'
              /\ \A i \in DOMAIN ops' : ops'[i].op \in {"get", "write"} => i > moved
              /\ wrote # 0 => /\ got # 0 /\ got < wrote
                              /\ ops'[got] = get_op(NewCall.entry.Poster)
                              /\ ops'[wrote] =
                                    write_op(Append(dest, poster_name_of(NewCall.entry)))
                              /\ ops'[wrote].at \in DOMAIN fsFiles'
              /\ download' = "ok" => wrote = 4 /\ Len(ops') = 4
              /\ download' # "ok" => wrote = 0]_vars

C11_Witness ==
    /\ pc = "loop"
    /\ performed # <<>>
    /\ download = "ok"
    /\ Len(ops) = 4
    /\ ops[1].op = "mkdir" /\ ops[2].op = "move"
    /\ ops[3].op = "get" /\ ops[4].op = "write"
    /\ ops[1].at \in fsDirs
    /\ ops[4].at \in DOMAIN fsFiles

\* The text m with every run of spaces shortened to one space: a character
\* stays unless it is a space that follows a space.
squeezed(m) ==
    LET keep == {i \in DOMAIN m : m[i] # " " \/ i = 1 \/ m[i - 1] # " "}
        nth(k) == CHOOSE i \in keep : Cardinality({j \in keep : j <= i}) = k
    IN  [k \in 1..Cardinality(keep) |-> m[nth(k)]]

Forbidden == {forbidden_characters[k] : k \in DOMAIN forbidden_characters}

\* C12: _clean returns a text without any of < > / \ : " | ? * and without
\* two spaces in a row; it is the argument with every forbidden character
\* turned into a space and then every run of spaces shortened to one, the
\* other characters kept in order.
C12_CleanRemovesForbiddenAndDoubleSpaces ==
    helper.fn = "_clean"
    => LET r == helper.ret
           spaced == [i \in DOMAIN helper.arg |->
                         IF helper.arg[i] \in Forbidden THEN " " ELSE helper.arg[i]]
       IN  /\ \A i \in DOMAIN r : r[i] \notin Forbidden
           /\ \A i \in 1..(Len(r) - 1) : ~(r[i] = " " /\ r[i + 1] = " ")
           /\ r = squeezed(spaced)
           /\ SelectSeq(r, LAMBDA c : c # " ")
                 = SelectSeq(helper.arg, LAMBDA c : c \notin Forbidden \cup {" "})

C12_Witness ==
    /\ helper.fn = "_clean"
    /\ helper.arg = <<":", "/", "a">>
    /\ helper.ret = <<" ", "a">>

\* The file name without its extension: what precedes the last dot, or the
\* whole name when it has no dot.
without_extension(f) ==
    IF \E i \in DOMAIN f : f[i] = "." THEN SubSeq(f, 1, LastIndexOf(f, ".") - 1)
    ELSE f

\* C13: for a non-empty file name construct_search returns the name
\* without its extension (the text after the last dot) and with every dot
\* that is left turned into a space; the result holds no dot.
C13_SearchIsNameWithoutExtension ==
    (helper.fn = "construct_search" /\ helper.arg # <<>>)
    => /\ helper.ret = [i \in DOMAIN without_extension(helper.arg) |->
                           IF without_extension(helper.arg)[i] = "." THEN " "
                           ELSE without_extension(helper.arg)[i]]
       /\ \A i \in DOMAIN helper.ret : helper.ret[i] # "."

\* A step of organize_gog's loop, and the entry it handles.
HandlesEntry == pc = "gog_loop" /\ idx <= Len(files) /\ (idx' = idx + 1 \/ pc' = "crashed")

\* C14: with dry_run = True organize_gog changes nothing in the file
\* system, whatever the directory holds: no directory is made and no file
\* is moved, also for an installer whose folder is missing or whose folder
\* name is taken by a regular file.
C14_DryRunMutatesNothing ==
    [][dry_run => /\ UNCHANGED <<fsDirs, fsFiles>>
                  /\ ops' = <<>>]_vars

C14_Witness ==
    /\ pc = "gog_done"
    /\ dry_run
    /\ report("info", "moved to", SetupAB1) \in log
    /\ Append(GogPath, <<"a", "_", "b">>) \notin fsDirs
    /\ report("error", "exists and is not a directory", Append(GogPath, GameX)) \in log
    /\ Append(GogPath, GameX) \in DOMAIN fsFiles

\* C15: with dry_run = False every regular file whose first '_' token is
\* 'setup' is moved into the subfolder named by its tokens between the
\* first and the last joined with '_', which is made when missing; other
\* files and the directories stay as they are; an installer whose folder
\* name is taken by a regular file stays in place and an error is reported.
C15_InstallersMovedToSubfolders ==
    [][(HandlesEntry /\ ~dry_run)
       => LET f == files[idx]
              src == Append(GogPath, f)
              tokens == split(f, "_")
              folder == GogPath \o <<join(SubSeq(tokens, 2, Len(tokens) - 1), "_")>>
          IN  IF src \in DOMAIN fsFiles /\ tokens[1] = Setup
              THEN IF folder \in DOMAIN fsFiles
                   THEN /\ UNCHANGED <<fsDirs, fsFiles>>
                        /\ \E m \in log' \ log : m.level = "error"
                   ELSE /\ fsDirs' = fsDirs \cup {folder}
                        /\ DOMAIN fsFiles' = (DOMAIN fsFiles \ {src})
                                                 \cup {Append(folder, f)}
                        /\ fsFiles'[Append(folder, f)] = fsFiles[src]
                        /\ \A q \in DOMAIN fsFiles \ {src} : fsFiles'[q] = fsFiles[q]
                        /\ pc' = "gog_loop"
              ELSE UNCHANGED <<fsDirs, fsFiles>>]_vars

AtPrompt(at) == at \in {"error_prompt", "choice_prompt"}

\* C16: through the rounds of one file's disambiguation the file name is
\* the one the loop was started for; the search string and the page are
\* all that change, and a confirmed candidate is applied to that file.
C16_FilenameFixed ==
    [][/\ AtPrompt(pc') => filename' = files'[idx']
       /\ (AtPrompt(pc) /\ AtPrompt(pc')) => (filename' = filename /\ idx' = idx)
       /\ CallsPerformRename
             => /\ AtPrompt(pc)
                /\ NewCall.filename = filename
                /\ NewCall.filename = files[idx]]_vars

C16_Witness ==
    /\ pc = "choice_prompt"
    /\ filename = MovieA
    /\ files[idx] = MovieA
    /\ search_string = <<"a">>
    /\ page = 2
    /\ rounds = 3

\* C17: rename handles the regular, not hidden files listed at the start
\* one at a time and each exactly once: all lookups of a file come before
\* its outcome (renamed, skipped, conflict) and the next file's lookups
\* after it; the run ends after the last file, with the working directory
\* back to what it was when rename was called.
C17_EachFileOnceThenRestored ==
    [][/\ pc = "start"
             => /\ \A i, j \in DOMAIN files' : files'[i] = files'[j] => i = j
                /\ {files'[i] : i \in DOMAIN files'}
                      = {f \in listdir(fsDirs, fsFiles, BaseDir) :
                            Append(BaseDir, f) \in DOMAIN fsFiles /\ f[1] # "."}
       /\ request'.issued => (idx' = idx /\ filename' = files[idx])
       /\ idx' # idx => (AtPrompt(pc) /\ idx' = idx + 1 /\ pc' = "loop")
       /\ pc' \in {"done", "crashed"}
             => (idx' = Len(files') + 1 /\ cwd' = old_dir' /\ old_dir' = StartDir)]_vars

\* C18: when perform_rename has fetched a poster, the destination folder
\* holds the moved movie file and the poster as two different files: the
\* poster "folder.<image extension>" is not written over the movie
\* "<cleaned Title>.<original extension>".
C18_PosterBesideMovie ==
    [][(CallsPerformRename /\ download' = "ok")
       => LET dst == moved_to(NewCall)
              poster == Append(Append(BaseDir, new_dir_of(NewCall.entry)),
                               poster_name_of(NewCall.entry))
          IN  /\ poster # dst
              /\ dst \in DOMAIN fsFiles'
              /\ poster \in DOMAIN fsFiles'
              /\ fsFiles'[dst] = fsFiles[Append(BaseDir, NewCall.filename)]
              /\ fsFiles'[poster] = image(NewCall.entry.Poster)]_vars

\* rename_movie is entered without a search string: for the next file of
\* the list, on an empty line at the selection prompt, and on 'n' when the
\* search string in use is empty.
EntersWithoutSearch ==
    \/ pc = "loop" /\ request'.issued
    \/ AnswersChoice /\ lastInput' = <<>>
    \/ AnswersChoice /\ lastInput' = <<"n">> /\ search_string = <<>>

\* C19: when rename_movie gets an empty search string, an empty line at
\* the selection prompt included, the lookup goes out with
\* construct_search(filename) and page 1, never with an empty query, and
\* the file is not skipped.
C19_EmptySearchFallsBackToFilename ==
    [][EntersWithoutSearch
       => /\ request' = [issued |-> TRUE, s |-> construct_search(files[idx]),
                         page |-> 1]
          /\ request'.s # <<>>
          /\ idx' = idx
          /\ AtPrompt(pc')]_vars

====
